---- MODULE Spec2Model ----
(***************************************************************************)
(* Client-side route protection of IngresoUNAM (src/src/App.js).           *)
(*                                                                         *)
(* The model follows one browser tab: the router's location and history   *)
(* stack, the ProtectedRoute instance that is currently mounted (if any)   *)
(* with its authState, and every invocation of checkAuth with the          *)
(* requests it has issued.  The backend is the environment: each pending   *)
(* GET /api/auth/me is answered by a 200 with a JSON body, a non-2xx       *)
(* status, a network error or a 200 whose body does not parse.             *)
(*                                                                         *)
(* A second execution, `twin`, runs in lock step with the first one: it    *)
(* receives the same navigations and the same backend responses and        *)
(* differs only in the value stored under the localStorage key "user".     *)
(*                                                                         *)
(* The route table is represented by one path of each kind (public,        *)
(* redirect, two authenticated routes, two admin routes).  localStorage is *)
(* written by pages outside this file; its content is chosen freely in the *)
(* initial state and stays as it is during an execution.                   *)
(***************************************************************************)
EXTENDS Integers, Sequences, FiniteSets, TLC

\* ----------------------------------------------------------------------
\* Bounds
\* ----------------------------------------------------------------------
MaxNav == 2        \* navigations performed by the visitor

\* ----------------------------------------------------------------------
\* Values
\* ----------------------------------------------------------------------
NULL == "<null>"              \* localStorage.getItem on an absent key
UNDEF == "<undefined>"        \* a missing property
NONE == "<none>"              \* no redirect pending

\* JavaScript truthiness of a localStorage value (null and "" are falsy)
Truthy(v) == v # NULL /\ v # ""

\* user records the backend can return as the JSON body of a 200
AdminRec == [id |-> 1, role |-> "admin"]
UserRec == [id |-> 1, role |-> "user"]
NoRoleRec == [id |-> 1, role |-> UNDEF]
NullUser == [id |-> 0, role |-> UNDEF]     \* null
Bodies == {AdminRec, UserRec, NoRoleRec, NullUser}

\* authState.user?.role
RoleOf(u) == IF u = NullUser THEN UNDEF ELSE u.role

\* values of the localStorage keys
StoredUserJson == "{role:user}"
TamperedUserJson == "{role:admin}"
ValidToken == "tok"
Stores == [user : {NULL, StoredUserJson},
           isAuthenticated : {NULL, "true", "false"},
           token : {NULL, ValidToken}]

\* the same store with the client-held user record tampered with
Tamper(st) == [st EXCEPT !.user = IF @ = StoredUserJson THEN TamperedUserJson ELSE @]

\* JSON.parse of a stored user record
ParseStored(v) ==
  IF v = StoredUserJson THEN UserRec
  ELSE IF v = TamperedUserJson THEN AdminRec
  ELSE NullUser

\* what the backend can answer to one request
Responses == [kind : {"ok"}, body : Bodies]
             \cup [kind : {"http", "neterr", "badjson"}, body : {NullUser}]

\* useState initial value, and the two values checkAuth sets
InitAuthState == [loading |-> TRUE, authenticated |-> FALSE, user |-> NullUser]
Unauth == [loading |-> FALSE, authenticated |-> FALSE, user |-> NullUser]
Authed(u) == [loading |-> FALSE, authenticated |-> TRUE, user |-> u]

\* ----------------------------------------------------------------------
\* Route table
\* ----------------------------------------------------------------------
Paths == {"/", "/login", "/dashboard", "/simulators", "/exam/1", "/admin",
          "/admin/users"}

\* the paths the visitor navigates to ("/" is where the application starts)
Targets == Paths \ {"/"}

RouteKindSimGuarded(path) ==
  IF path \in {"/", "/login"} THEN "public"
  ELSE IF path \in {"/admin", "/admin/users"} THEN "admin"
  ELSE "auth"

\* guard requirement of the route a path matches
RouteKind(path) ==
  IF path \in {"/", "/login"} THEN "public"
  ELSE IF path = "/simulators" THEN "redirect"
  ELSE IF path \in {"/admin", "/admin/users"} THEN "admin"
  ELSE "auth"

\* ----------------------------------------------------------------------
\* State
\* ----------------------------------------------------------------------
VARIABLES
  store,       \* localStorage: user, isAuthenticated, token
  location,    \* current path
  histLen,     \* number of entries of the browser history stack
  guardInst,   \* id of the mounted ProtectedRoute instance, 0 if none
  adminOnly,   \* the mounted guard's adminOnly prop
  authState,   \* the mounted guard's authState
  runs,        \* every checkAuth invocation: instance, position, requests
  insts,       \* number of guard instances mounted so far
  lastWriter,  \* the run whose setAuthState wrote authState last (0: none)
  results,     \* run -> the value it passed to the mounted guard's setAuthState
  shown,       \* the guard's children were rendered during this visit
  navs,        \* navigations performed by the visitor
  healthy,     \* the backend answers 200 to every request carrying the token
  twin         \* the lock-step execution with the tampered user record

vars == <<store, location, histLen, guardInst, adminOnly, authState, runs,
          insts, lastWriter, results, shown, navs, healthy, twin>>

\* the first execution as one record
cur == [store |-> store, location |-> location, histLen |-> histLen,
        guardInst |-> guardInst, adminOnly |-> adminOnly,
        authState |-> authState, runs |-> runs, insts |-> insts,
        lastWriter |-> lastWriter, results |-> results, shown |-> shown,
        navs |-> navs]

Apply(s) ==
  /\ store' = s.store
  /\ location' = s.location
  /\ histLen' = s.histLen
  /\ guardInst' = s.guardInst
  /\ adminOnly' = s.adminOnly
  /\ authState' = s.authState
  /\ runs' = s.runs
  /\ insts' = s.insts
  /\ lastWriter' = s.lastWriter
  /\ results' = s.results
  /\ shown' = s.shown
  /\ navs' = s.navs

\* ----------------------------------------------------------------------
\* ProtectedRoute: render
\* ----------------------------------------------------------------------
GuardRenderNoRole(s) ==
  IF s.authState.loading THEN "spinner"
  ELSE IF ~s.authState.authenticated THEN "login"
  ELSE "children"

GuardRenderStoredRole(s) ==
  IF s.authState.loading THEN "spinner"
  ELSE IF ~s.authState.authenticated THEN "login"
  ELSE IF s.adminOnly /\ RoleOf(ParseStored(s.store.user)) # "admin" THEN "dashboard"
  ELSE "children"

\* what a mounted guard returns
GuardRender(s) ==
  IF s.authState.loading THEN "spinner"
  ELSE IF ~s.authState.authenticated THEN "login"
  ELSE IF s.adminOnly /\ RoleOf(s.authState.user) # "admin" THEN "dashboard"
  ELSE "children"

ChildrenRendered(s) == s.guardInst # 0 /\ GuardRender(s) = "children"

\* AdminRoutes: the AdminDataProvider is a child of the guard
AdminDataMaterialized(s) == ChildrenRendered(s) /\ s.adminOnly

\* the <Navigate replace> element in the rendered tree, if any
RedirectTarget(s) ==
  IF s.guardInst = 0
  THEN IF RouteKind(s.location) = "redirect" THEN "/dashboard" ELSE NONE
  ELSE IF GuardRender(s) = "login" THEN "/login"
  ELSE IF GuardRender(s) = "dashboard" THEN "/dashboard"
  ELSE NONE

Observe(s) == [s EXCEPT !.shown = @ \/ ChildrenRendered(s)]

\* ----------------------------------------------------------------------
\* checkAuth
\* ----------------------------------------------------------------------
Issue(s, r, kind, cred, bearer) ==
  [s EXCEPT !.runs[r].pc = kind,
            !.runs[r].reqs = Append(@, [kind |-> kind, credentials |-> cred,
                                        bearer |-> bearer, status |-> "pending"])]

FinishLatestOnly(s, r, st) ==
  LET s1 == [s EXCEPT !.runs[r].pc = "done"]
  IN IF s.runs[r].inst = s.guardInst /\ r = Len(s.runs)
     THEN [s1 EXCEPT !.authState = st, !.lastWriter = r,
                     !.results = (r :> st) @@ @]
     ELSE s1

\* setAuthState(st) at the end of run r; a no-op once the guard is unmounted
Finish(s, r, st) ==
  LET s1 == [s EXCEPT !.runs[r].pc = "done"]
  IN IF s.runs[r].inst = s.guardInst
     THEN [s1 EXCEPT !.authState = st, !.lastWriter = r,
                     !.results = (r :> st) @@ @]
     ELSE s1

TokenAttemptNone(s, r) == Finish(s, r, Unauth)

\* "Try token from localStorage"
TokenAttempt(s, r) ==
  IF Truthy(s.store.token)
  THEN Issue(s, r, "token", FALSE, s.store.token)
  ELSE Finish(s, r, Unauth)

checkAuthNoFlag(s) ==
  LET r == Len(s.runs) + 1
      s1 == [s EXCEPT !.runs = Append(@, [inst |-> s.guardInst, pc |-> "start",
                                          reqs |-> <<>>])]
  IN IF Truthy(s.store.user)
     THEN Issue(s1, r, "cookie", TRUE,
                IF Truthy(s.store.token) THEN s.store.token ELSE "")
     ELSE TokenAttempt(s1, r)

\* the effect: start a run, up to its first await
checkAuth(s) ==
  LET r == Len(s.runs) + 1
      s1 == [s EXCEPT !.runs = Append(@, [inst |-> s.guardInst, pc |-> "start",
                                          reqs |-> <<>>])]
  IN IF Truthy(s.store.user) /\ s.store.isAuthenticated = "true"
     THEN Issue(s1, r, "cookie", TRUE,
                IF Truthy(s.store.token) THEN s.store.token ELSE "")
     ELSE TokenAttempt(s1, r)

SwallowedFetchOnly(kind) == kind = "neterr"

\* rejections raised inside the try blocks
Swallowed(kind) == kind \in {"neterr", "badjson"}

Awaiting(s, r) == r \in 1..Len(s.runs) /\ s.runs[r].pc \in {"cookie", "token"}

ResumeNoReturn(s, r, resp) ==
  LET n == Len(s.runs[r].reqs)
      ok == resp.kind = "ok"
      s1 == [s EXCEPT !.runs[r].reqs[n].status = IF ok THEN "ok" ELSE "fail"]
  IN IF s.runs[r].pc = "cookie"
     THEN IF ok
          THEN TokenAttempt(Finish(s1, r, Authed(resp.body)), r)
          ELSE TokenAttempt(s1, r)
     ELSE IF ok THEN Finish(s1, r, Authed(resp.body)) ELSE Finish(s1, r, Unauth)

\* run r resumes after its pending fetch (and response.json()) settles
Resume(s, r, resp) ==
  LET n == Len(s.runs[r].reqs)
      ok == resp.kind = "ok"
      s1 == [s EXCEPT !.runs[r].reqs[n].status = IF ok THEN "ok" ELSE "fail"]
  IN IF ok THEN Finish(s1, r, Authed(resp.body))
     ELSE IF resp.kind = "http" \/ Swallowed(resp.kind)
          THEN IF s.runs[r].pc = "cookie"
               THEN TokenAttempt(s1, r)
               ELSE Finish(s1, r, Unauth)
          ELSE [s1 EXCEPT !.runs[r].pc = "threw"]

\* ----------------------------------------------------------------------
\* Router
\* ----------------------------------------------------------------------
\* the location becomes path: Routes renders the matching element.  A guard
\* of the same element type (ProtectedRoute, or AdminRoutes) at the same
\* place of the tree keeps its instance and its state; the effect on
\* [location] starts a new run.  A push adds a history entry, a replace
\* overwrites the current one.
NavigateTo(s, path, replace) ==
  LET kind == RouteKind(path)
      guarded == kind \in {"auth", "admin"}
      persist == guarded /\ s.guardInst # 0 /\ s.adminOnly = (kind = "admin")
      s1 == [s EXCEPT !.location = path,
                      !.histLen = IF replace THEN @ ELSE @ + 1,
                      !.guardInst = IF ~guarded THEN 0
                                    ELSE IF persist THEN @ ELSE s.insts + 1,
                      !.insts = IF guarded /\ ~persist THEN @ + 1 ELSE @,
                      !.adminOnly = (kind = "admin"),
                      !.authState = IF persist THEN @ ELSE InitAuthState,
                      !.lastWriter = IF persist THEN @ ELSE 0,
                      !.results = IF persist THEN @ ELSE <<>>,
                      !.shown = FALSE]
      s2 == Observe(s1)
  IN IF guarded THEN Observe(checkAuth(s2)) ELSE s2

\* setUser of the AuthContext value
CallSetUser(s, u) ==
  [s EXCEPT !.authState.user = u, !.lastWriter = 0]

\* ----------------------------------------------------------------------
\* Initial state
\* ----------------------------------------------------------------------
Start(st) ==
  [store |-> st, location |-> "/", histLen |-> 1, guardInst |-> 0,
   adminOnly |-> FALSE, authState |-> InitAuthState, runs |-> <<>>,
   insts |-> 0, lastWriter |-> 0, results |-> <<>>, shown |-> FALSE,
   navs |-> 0]

Init ==
  \E st \in Stores :
    /\ store = st
    /\ location = "/"
    /\ histLen = 1
    /\ guardInst = 0
    /\ adminOnly = FALSE
    /\ authState = InitAuthState
    /\ runs = <<>>
    /\ insts = 0
    /\ lastWriter = 0
    /\ results = <<>>
    /\ shown = FALSE
    /\ navs = 0
    /\ healthy \in BOOLEAN
    /\ twin = Start(Tamper(st))

\* ----------------------------------------------------------------------
\* Actions.  React flushes the effects of a committed render before it
\* handles the next event, so a rendered <Navigate> navigates before any
\* other step is taken.
\* ----------------------------------------------------------------------
Quiet(s) == RedirectTarget(s) = NONE

\* the visitor follows a link or calls navigate(path): a history push
UserNavigate(path) ==
  /\ Quiet(cur)
  /\ navs < MaxNav
  /\ Apply([NavigateTo(cur, path, FALSE) EXCEPT !.navs = @ + 1])
  /\ twin' = IF Quiet(twin)
             THEN [NavigateTo(twin, path, FALSE) EXCEPT !.navs = @ + 1]
             ELSE twin
  /\ UNCHANGED healthy

\* the effect of a rendered <Navigate to=... replace />
NavigateEffect ==
  /\ ~Quiet(cur)
  /\ Apply(NavigateTo(cur, RedirectTarget(cur), TRUE))
  /\ twin' = IF ~Quiet(twin)
             THEN NavigateTo(twin, RedirectTarget(twin), TRUE)
             ELSE twin
  /\ UNCHANGED healthy

\* the answers the backend may give to the pending request of run r
Answers(s, r) ==
  LET req == s.runs[r].reqs[Len(s.runs[r].reqs)]
  IN IF healthy /\ req.bearer = ValidToken
     THEN {a \in Responses : a.kind = "ok"}
     ELSE Responses

\* the pending fetch of run r settles and the run resumes
Respond(r, resp) ==
  /\ Quiet(cur)
  /\ Awaiting(cur, r)
  /\ resp \in Answers(cur, r)
  /\ Apply(Observe(Resume(cur, r, resp)))
  /\ twin' = IF Quiet(twin) /\ Awaiting(twin, r)
             THEN Observe(Resume(twin, r, resp))
             ELSE twin
  /\ UNCHANGED healthy

\* a rendered child calls setUser(u) of the AuthContext
SetUser(u) ==
  /\ ChildrenRendered(cur)
  /\ Apply(Observe(CallSetUser(cur, u)))
  /\ twin' = IF ChildrenRendered(twin)
             THEN Observe(CallSetUser(twin, u))
             ELSE twin
  /\ UNCHANGED healthy

Next ==
  \/ \E path \in Targets : UserNavigate(path)
  \/ NavigateEffect
  \/ \E r \in 1..Len(runs), resp \in Responses : Respond(r, resp)
  \/ \E u \in Bodies : SetUser(u)

Spec == Init /\ [][Next]_vars

\* The event loop keeps going: a settled fetch resumes its run and a
\* committed effect runs.  The visitor's navigations and the children's
\* setUser calls are not forced.
RunIds == 1..(2 * MaxNav)
EventLoop ==
  \/ NavigateEffect
  \/ \E r \in 1..Len(runs), resp \in Responses : Respond(r, resp)

\* ENABLED EventLoop, written out: a redirect is rendered or a fetch is pending
EventPending == ~Quiet(cur) \/ \E r \in 1..Len(runs) : Awaiting(cur, r)

\* the steps of Next that are steps of EventLoop: a redirect changes the
\* location and a resumed run changes runs, by no navigation of the visitor
EventStep == navs' = navs /\ (runs' # runs \/ location' # location)

EventPendingIsEnabled == EventPending <=> ENABLED EventLoop
EventStepIsEventLoop == [][EventStep <=> EventLoop]_vars

\* Spec with weak fairness of EventLoop, WF_vars(EventLoop), in the form
\* []<>~ENABLED <<A>>_vars \/ []<><<A>>_vars with the two parts written out
\* (EventPendingIsEnabled and EventStepIsEventLoop hold of Spec)
FairSpec == Spec /\ ([]<>(~EventPending) \/ []<><<EventStep>>_vars)

\* ----------------------------------------------------------------------
\* Properties
\* ----------------------------------------------------------------------
Latest == Len(runs)
Mounted == guardInst # 0
LatestDone == Latest > 0 /\ runs[Latest].pc = "done"
\* run r has ended without a successful response
Failed(rs, r) ==
  /\ rs[r].pc = "done"
  /\ rs[r].reqs = <<>> \/ rs[r].reqs[Len(rs[r].reqs)].status = "fail"
\* run r ends in this step
Completes(r) ==
  /\ r \in 1..Len(runs')
  /\ runs'[r].pc = "done"
  /\ r \in 1..Len(runs) => runs[r].pc # "done"
NoCredentials == store.isAuthenticated # "true" /\ ~Truthy(store.token)
ValidSession == healthy /\ store.token = ValidToken
AdminVerified ==
  \E r \in DOMAIN results :
    results[r].authenticated /\ RoleOf(results[r].user) = "admin"

\* C1: on a guarded route, when the verification started by the current
\* visit has ended without a successful response, the guard redirects to
\* /login and its children were not rendered at any point of the visit.
C1_UnauthenticatedNeverRendered ==
  (Mounted /\ LatestDone /\ Failed(runs, Latest))
    => (~shown /\ RedirectTarget(cur) = "/login")

\* C2: the AdminDataProvider and the admin view are rendered only while
\* loading=false, authenticated=true and user.role="admin", and only by a
\* guard one of whose verifications returned an admin record; an admin-only
\* guard that is authenticated with any other record (another role, no role,
\* a null user) redirects to /dashboard, and that redirect leaves the admin
\* route for /dashboard by a replace.
C2_AdminOnlyForAdmins ==
  /\ [](AdminDataMaterialized(cur) =>
          /\ ~authState.loading
          /\ authState.authenticated
          /\ RoleOf(authState.user) = "admin")
  /\ []((Mounted /\ adminOnly /\ shown) => AdminVerified)
  /\ []((Mounted /\ adminOnly /\ ~authState.loading /\ authState.authenticated
           /\ RoleOf(authState.user) # "admin")
          => RedirectTarget(cur) = "/dashboard")
  /\ [][(Mounted /\ adminOnly /\ RedirectTarget(cur) = "/dashboard")
          => (location' = "/dashboard" /\ ~adminOnly' /\ ~shown'
              /\ histLen' = histLen)]_vars

C2_Witness ==
  /\ Mounted /\ adminOnly /\ location = "/admin/users"
  /\ lastWriter # 0
  /\ authState = Authed(UserRec)
  /\ ~shown
  /\ RedirectTarget(cur) = "/dashboard"

\* C3 (as stated): with a valid stored token and a backend that answers 200
\* to every request carrying it, a guard that has left Loading is
\* Authenticated and renders its children.
C3_LoadedRendersChildren ==
  (ValidSession /\ Mounted /\ ~authState.loading)
    => (authState.authenticated /\ GuardRender(cur) = "children")

\* C3 (amended): with a valid stored token and a backend that answers 200 to
\* every request carrying it, a mounted guard is never Unauthenticated and
\* never redirects to /login, every value a verification writes is
\* Authenticated with the record the backend returned, a guard that has left
\* Loading renders its children unless it is admin-only and the record's role
\* is not "admin" (then it redirects to /dashboard), and every guard that
\* stays mounted eventually leaves Loading and is Authenticated.
C3_ValidTokenAuthenticates ==
  /\ [](ValidSession /\ Mounted =>
          /\ authState.loading \/ authState.authenticated
          /\ RedirectTarget(cur) # "/login"
          /\ lastWriter # 0 =>
               (authState = results[lastWriter] /\ authState.authenticated)
          /\ ~authState.loading =>
               \/ GuardRender(cur) = "children"
               \/ /\ adminOnly /\ RoleOf(authState.user) # "admin"
                  /\ RedirectTarget(cur) = "/dashboard")
  /\ (ValidSession /\ Mounted)
       ~> (~Mounted \/ (~authState.loading /\ authState.authenticated))

C3_Witness ==
  /\ ValidSession
  /\ store.user = NULL /\ store.isAuthenticated = NULL
  /\ Mounted /\ lastWriter # 0
  /\ ChildrenRendered(cur)
  /\ authState = Authed(UserRec)

\* C4: with no session flag "true" and no token in the store, every
\* verification run has ended without issuing a request, and a mounted guard
\* is Unauthenticated: loading=false, authenticated=false, user=null.
C4_NoCredentialsNoRequests ==
  NoCredentials =>
    /\ \A r \in 1..Len(runs) : runs[r].reqs = <<>> /\ runs[r].pc = "done"
    /\ Mounted => (authState = Unauth /\ lastWriter = Latest
                   /\ results[Latest] = Unauth)

C4_Witness ==
  /\ NoCredentials
  /\ Truthy(store.user)
  /\ Mounted
  /\ Latest = 1 /\ runs[1].reqs = <<>>
  /\ authState = Unauth

\* C5: while the verification started by the latest navigation is pending,
\* the mounted guard is Loading and does not render its children.
C5_LoadingWhilePending ==
  (Mounted /\ Latest > 0 /\ runs[Latest].pc # "done")
    => (authState.loading /\ ~ChildrenRendered(cur))

\* C6: at /simulators no guard is mounted and the rendered element is the
\* redirect to /dashboard; arriving there starts no verification run and
\* issues no request; the only step taken from there replaces the history
\* entry by /dashboard; and the redirect always happens.
C6_SimulatorsRedirects ==
  /\ [](location = "/simulators" =>
          (~Mounted /\ RedirectTarget(cur) = "/dashboard"))
  /\ [][/\ location' = "/simulators" => (runs' = runs /\ guardInst' = 0)
        /\ location = "/simulators" =>
             (location' = "/dashboard" /\ histLen' = histLen)]_vars
  /\ (location = "/simulators") ~> (location = "/dashboard")

C6_Witness ==
  /\ location = "/simulators"
  /\ store.isAuthenticated = "true" /\ Truthy(store.user) /\ Truthy(store.token)
  /\ \E r \in 1..Len(runs) : Awaiting(cur, r)

\* C7: no failure leaves a run: a run never ends by an exception; a run of
\* the mounted guard that ends without a successful response sets authState
\* to {loading: false, authenticated: false, user: null} and the guard
\* renders the redirect to /login, which is then taken; and a mounted guard
\* that is Loading has a request pending.
C7_FailuresSwallowed ==
  /\ [](\A r \in 1..Len(runs) : runs[r].pc # "threw")
  /\ []((Mounted /\ authState.loading) =>
          \E r \in 1..Len(runs) : runs[r].inst = guardInst /\ Awaiting(cur, r))
  /\ [][\A r \in RunIds :
          (Completes(r) /\ Failed(runs', r) /\ runs'[r].inst = guardInst')
            => (authState' = Unauth /\ RedirectTarget(cur)' = "/login")]_vars
  /\ [][(Mounted /\ RedirectTarget(cur) = "/login")
          => (location' = "/login" /\ guardInst' = 0 /\ histLen' = histLen)]_vars

C7_Witness ==
  /\ Mounted /\ LatestDone
  /\ Len(runs[Latest].reqs) = 2
  /\ runs[Latest].reqs[2].status = "fail"
  /\ authState = Unauth
  /\ RedirectTarget(cur) = "/login"

\* C8: the requests of one run: at most two; at most one pending, and it is
\* the last one; a cookie request (credentials forwarded, bearer header the
\* stored token or empty) only as the first one and only with a stored user
\* and the flag "true"; a token request (no credentials, bearer the stored
\* token) only with a stored token, and as the second one only after a cookie
\* request that failed; none after a request that succeeded.
C8_RequestsOrdered ==
  \A r \in 1..Len(runs) :
    LET q == runs[r].reqs
    IN /\ Len(q) <= 2
       /\ \A i \in 1..Len(q) :
            /\ q[i].status = "pending" => (i = Len(q) /\ runs[r].pc = q[i].kind)
            /\ q[i].status = "ok" => (i = Len(q) /\ runs[r].pc = "done")
            /\ q[i].kind = "cookie" =>
                 /\ i = 1
                 /\ q[i].credentials
                 /\ Truthy(store.user) /\ store.isAuthenticated = "true"
                 /\ q[i].bearer = IF Truthy(store.token) THEN store.token ELSE ""
            /\ q[i].kind = "token" =>
                 /\ ~q[i].credentials
                 /\ Truthy(store.token) /\ q[i].bearer = store.token
                 /\ i = 1 => ~(Truthy(store.user) /\ store.isAuthenticated = "true")
                 /\ i = 2 => (q[1].kind = "cookie" /\ q[1].status = "fail")
       /\ runs[r].pc = "done" => \A i \in 1..Len(q) : q[i].status # "pending"
       /\ runs[r].pc \in {"cookie", "token"} =>
            (Len(q) > 0 /\ q[Len(q)].status = "pending")

C8_Witness ==
  \E r \in 1..Len(runs) :
    /\ Len(runs[r].reqs) = 2
    /\ runs[r].reqs[1].kind = "cookie" /\ runs[r].reqs[1].status = "fail"
    /\ runs[r].reqs[2].kind = "token" /\ runs[r].reqs[2].status = "pending"

\* C9: no run is cancelled or ordered: whenever a run of the mounted guard
\* ends, its result is written to authState, also when a run started later
\* has already ended.
C9_StaleRunsWrite ==
  [][\A r \in RunIds :
       (Completes(r) /\ r \in 1..Len(runs) /\ runs[r].inst = guardInst)
         => (lastWriter' = r /\ authState' = results'[r])]_vars

\* the guard is Authenticated with the record of an earlier run although the
\* run started last has ended with another record
C9_Witness ==
  /\ Mounted /\ LatestDone
  /\ lastWriter # 0 /\ lastWriter < Latest
  /\ Latest \in DOMAIN results
  /\ authState = results[lastWriter]
  /\ authState.authenticated /\ results[Latest].authenticated
  /\ results[Latest].user # authState.user
  /\ ChildrenRendered(cur)

\* C10: the execution whose stored user record is tampered with, given the
\* same navigations and backend responses, issues the same requests, has the
\* same authState and takes the same render decision.
C10_StoredUserContentIrrelevant ==
  /\ twin.store = Tamper(store)
  /\ [twin EXCEPT !.store = store] = cur
  /\ RedirectTarget(twin) = RedirectTarget(cur)
  /\ ChildrenRendered(twin) = ChildrenRendered(cur)

C10_Witness ==
  /\ store.user = StoredUserJson /\ twin.store.user = TamperedUserJson
  /\ store.isAuthenticated = "true"
  /\ Mounted /\ adminOnly /\ lastWriter # 0
  /\ authState = Authed(UserRec)
  /\ RedirectTarget(twin) = "/dashboard"
====
